---- MODULE Spec2Model ----
(***************************************************************************)
(* Model of serena_mcp: the language-server session (LSPServerProcess),    *)
(* the session registry (LSPClient) and the result cache (CacheManager).   *)
(*                                                                         *)
(* Scheduling.  The program runs one asyncio event loop.  No coroutine of  *)
(* lsp_client.py ever yields to the loop: subprocess.Popen, writer.write,  *)
(* reader._read_message and process.wait are blocking calls, and every     *)
(* `await` awaits a coroutine that itself never suspends.  A registry      *)
(* operation therefore runs to completion before another task is           *)
(* scheduled; the model has ONE client thread (pc, cur).  The only         *)
(* concurrency is between that thread and the backend processes.           *)
(***************************************************************************)
EXTENDS Integers, Sequences, FiniteSets, TLC

\* ------------------------------------------------------------------ bounds
MaxSessions == 3      \* LSPServerProcess objects ever constructed
MaxId       == 3      \* request ids a session may allocate
MaxPipe     == 1      \* frames buffered in a backend's stdout pipe
MaxWait     == 6      \* elapsed time tracked in a blocking call

\* ------------------------------------------------------- program constants
GraceTimeout == 5     \* process.wait(timeout=5)
LSP_TIMEOUT  == 5     \* Config.LSP_TIMEOUT_MS = 5000 ms, in seconds

LANGUAGE_SERVERS == {"python", "typescript", "javascript", "bash", "go"}

\* File suffixes the environment passes in (Path(file_path).suffix).
Exts == {".py", ".PY", ".ts", ".txt", ""}

Queries == {"get_definition", "get_references", "get_symbols"}

\* str.lower() on the suffixes of Exts.
Lower(ext) == IF ext = ".PY" THEN ".py" ELSE ext

\* A map that falls back to a configured language instead.
language_map_python_default == "python"

\* language_map.get(ext, "unknown")
language_map_default == "unknown"

language_map(ext) ==
    CASE ext = ".py"   -> "python"
      [] ext = ".ts"   -> "typescript"
      [] ext = ".tsx"  -> "typescript"
      [] ext = ".js"   -> "javascript"
      [] ext = ".jsx"  -> "javascript"
      [] ext = ".sh"   -> "bash"
      [] ext = ".bash" -> "bash"
      [] ext = ".go"   -> "go"
      [] OTHER         -> language_map_default

get_language_from_file(ext) == language_map(Lower(ext))

\* Values a registry operation returns.
NoneVal      == [kind |-> "none", tag |-> 0]
EmptyList    == [kind |-> "list", tag |-> 0]
Item(tag)    == [kind |-> "item", tag |-> tag]
Payload(tag) == [kind |-> "payload", tag |-> tag]

\* The value each query returns when no session exists for the language.
EmptyResult(op) == IF op = "get_definition" THEN NoneVal ELSE EmptyList

\* The value each session-level query makes of the backend's result.
QueryResult(op, tag) == IF op = "get_definition" THEN Item(tag) ELSE Payload(tag)

QueryMethod(op) ==
    CASE op = "get_definition" -> "textDocument/definition"
      [] op = "get_references" -> "textDocument/references"
      [] OTHER                 -> "textDocument/documentSymbol"

VARIABLES
    servers,      \* LSPClient.servers: sequence of [lang, sid], insertion order
    initialized,  \* LSPClient.initialized
    sessions,     \* LSPServerProcess objects, by sid
    procs,        \* backend processes, by pid
    pc,           \* where the event-loop thread is
    cur,          \* the operation it is executing
    waited,       \* time elapsed in the current blocking call
    lastResult,   \* outcome of the operation that has just finished
    cache,        \* CacheManager.cache: the TTLCache's entries, least recently used first
    now,          \* the TTLCache's timer (time.monotonic)
    setAt,        \* per key, when set last stored it (-1: never)
    cres,         \* the last CacheManager call and what it returned
    ctxCache,     \* ContextManager.cache: its own CacheManager's entries
    ctx,          \* the get_context call in progress
    ctxRes,       \* what the last get_context call returned
    refCall,      \* the last reference extraction: its input and what it kept
    editRes,      \* the last apply_edit call: the file before and after, the result
    srv,          \* MCPStdioServer.run: where it is, and the request in hand
    out,          \* the responses written to stdout, in order
    parsed        \* the last _parse_query call: the query, the files there are, the result

lspVars == <<servers, initialized, sessions, procs, pc, cur, waited, lastResult>>

cacheVars == <<cache, now, setAt, cres>>

ctxVars == <<ctxCache, ctx, ctxRes>>

refVars == <<refCall>>

editVars == <<editRes>>

srvVars == <<srv, out>>

parseVars == <<parsed>>

nonLspVars == <<cacheVars, ctxVars, refVars, editVars, srvVars, parseVars>>

nonCacheVars == <<lspVars, ctxVars, refVars, editVars, srvVars, parseVars>>

nonCtxVars == <<lspVars, cacheVars, refVars, editVars, srvVars, parseVars>>

vars == <<servers, initialized, sessions, procs, pc, cur, waited, lastResult,
          cache, now, setAt, cres, ctxCache, ctx, ctxRes, refCall, editRes,
          srv, out, parsed>>

\* ----------------------------------------------------------------- helpers
NoCur == [op |-> "none", lang |-> "", sid |-> 0, msg_id |-> 0, idx |-> 0,
          skipped |-> FALSE]

NoResult == [op |-> "none", status |-> "none", err |-> "", value |-> NoneVal,
             msg_id |-> 0, skipped |-> FALSE]

Ok(c, v) == [op |-> c.op, status |-> "ok", err |-> "", value |-> v,
             msg_id |-> c.msg_id, skipped |-> c.skipped]

Raised(c, e) == [op |-> c.op, status |-> "raised", err |-> e, value |-> NoneVal,
                 msg_id |-> c.msg_id, skipped |-> c.skipped]

Registered(lang) == \E i \in 1..Len(servers) : servers[i].lang = lang

SidOf(lang) == LET i == CHOOSE i \in 1..Len(servers) : servers[i].lang = lang
               IN servers[i].sid

Running(p) == procs[p].state = "running"

\* writer.write(message): pylsp_jsonrpc swallows every write error, so a
\* message for a backend that has exited is lost and nothing is raised.
\* A request stays in the backend's inbox until the backend answers or
\* drops it; of the notifications, which ask for no answer, the backend
\* keeps the last one it was sent.
Written(ps, p, m) ==
    IF ps[p].state = "running"
    THEN IF m.id # 0
         THEN [ps EXCEPT ![p].inbox = Append(@, m)]
         ELSE [ps EXCEPT ![p].notified = m.method]
    ELSE ps

\* A request that carries the first id whatever the counter says.
RequestFirstId(id, method) == [id |-> 1, method |-> method]

\* {"jsonrpc": "2.0", "id": msg_id, "method": method, "params": params}
Request(id, method) == [id |-> id, method |-> method]

Notification(method) == [id |-> 0, method |-> method]

\* Exception(f"LSP error: {msg['error']}"): the message holds the error
\* object of the frame.
ErrorPayload(f) == [kind |-> "error", tag |-> f.result]

\* A read loop that takes whichever frame comes first.
MatchesAny(f, msg_id) == TRUE

\* A read loop that takes no frame.
MatchesNone(f, msg_id) == FALSE

\* msg.get("id") == msg_id
Matches(f, msg_id) == f.id = msg_id

\* A read loop that does not look for an error object.
IsErrorNever(f) == FALSE

\* "error" in msg
IsError(f) == f.kind = "error"

\* A stop() without its guard.
StopGuardAlways(s) == TRUE

\* if self.process:
StopGuard(s) == sessions[s].process # 0

\* A session object whose stop() has run to its finally clause.
Terminated(s) ==
    /\ sessions[s].process = 0
    /\ \E p \in 1..Len(procs) : procs[p].owner = s

\* ------------------------------------------------------------ CacheManager
\* Bounds of the cache model: the capacity and lifetime are configuration
\* (Config.CACHE_SIZE_MB, Config.CACHE_TTL_DAYS), scaled down to a few bytes
\* and ticks.
cache_size_bytes == 6
ttl_seconds      == 2
MaxTime          == 4

Keys == {"k1", "k2", "k3"}

\* Python values handed to set(): [t, k, n] is a container of type t (with
\* keys of type k, for a dict) whose JSON body, the text between the outer
\* brackets, is n bytes long.
PyDict(k, n) == [t |-> "dict", k |-> k, n |-> n, body |-> <<>>]
PyList(n)    == [t |-> "list", k |-> "", n |-> n, body |-> <<>>]
PyTuple(n)   == [t |-> "tuple", k |-> "", n |-> n, body |-> <<>>]
PySet(n)     == [t |-> "set", k |-> "", n |-> n, body |-> <<>>]

Values == {PyDict("str", 0), PyDict("str", 2), PyDict("str", 3),
           PyDict("str", cache_size_bytes), PyDict("int", 2),
           PyList(2), PyTuple(2), PySet(1)}

\* json.dumps(value): a set is not serializable (TypeError); a dict's keys
\* are written as strings; a tuple is written as an array.
Serializable(v) == v.t # "set"

\* A text held by the TTLCache that is not a JSON document: the `cache`
\* attribute is public and takes any string.
RawText == [j |-> "invalid", n |-> 1, body |-> <<>>]

\* json.loads(text) raises JSONDecodeError on a text that is not JSON.
Deserializable(text) == text.j # "invalid"

json_dumps(v) ==
    IF v.t = "dict" THEN [j |-> "object", n |-> v.n, body |-> v.body]
    ELSE [j |-> "array", n |-> v.n, body |-> v.body]

\* json.loads(text): an object gives a dict with str keys, an array a list.
json_loads(text) ==
    IF text.j = "object"
    THEN [PyDict("str", text.n) EXCEPT !.body = text.body]
    ELSE [PyList(text.n) EXCEPT !.body = text.body]

\* _get_size: len(value.encode("utf-8")), the body and its two brackets.
get_size(text) == text.n + 2

\* A get() that hands back the stored text.
get_return_raw(text) == text

\* get(): return json.loads(value)
get_return(text) == json_loads(text)

\* A get() without its except clause lets the error out.
get_unguarded == TRUE

\* get(): except Exception: return None, so nothing is raised.
get_raises == FALSE

NoCall == [op |-> "none", key |-> "", arg |-> PyDict("str", 0), ok |-> FALSE,
           val |-> PyDict("str", 0), time |-> 0, raised |-> FALSE,
           evicted |-> {}]

RECURSIVE SumSizes(_)
SumSizes(c) == IF c = <<>> THEN 0 ELSE Head(c).size + SumSizes(Tail(c))

\* Cache.currsize
currsize(c) == SumSizes(c)

Has(c, key) == \E i \in 1..Len(c) : c[i].key = key

Entry(c, key) == c[CHOOSE i \in 1..Len(c) : c[i].key = key]

RECURSIVE Without(_, _)
Without(c, key) ==
    IF c = <<>> THEN <<>>
    ELSE IF Head(c).key = key THEN Without(Tail(c), key)
    ELSE <<Head(c)>> \o Without(Tail(c), key)

\* A cache whose entries never expire.
NeverExpired(e, time) == FALSE

\* TTLCache: not (time < link.expires)
Expired(e, time) == ~(time < e.expires)

\* TTLCache.expire(time): drop every expired entry.
RECURSIVE expire(_, _)
expire(c, time) ==
    IF c = <<>> THEN <<>>
    ELSE IF Expired(Head(c), time) THEN expire(Tail(c), time)
    ELSE <<Head(c)>> \o expire(Tail(c), time)

\* A cache that never evicts.
popitems_none(c, size) == c

\* A cache that takes a value of any size.
NeverTooLarge(size) == FALSE

\* Cache.__setitem__: if size > maxsize: raise ValueError("value too large")
TooLarge(size) == size > cache_size_bytes

\* A cache that makes room at the most recently used end.
RECURSIVE popitems_mru(_, _)
popitems_mru(c, size) ==
    IF c # <<>> /\ currsize(c) + size > cache_size_bytes
    THEN popitems_mru(SubSeq(c, 1, Len(c) - 1), size)
    ELSE c

\* Cache.__setitem__'s loop: while currsize + size > maxsize: popitem(),
\* which pops the least recently used entry.
RECURSIVE popitems(_, _)
popitems(c, size) ==
    IF c # <<>> /\ currsize(c) + size > cache_size_bytes
    THEN popitems(Tail(c), size)
    ELSE c

\* TTLCache.__setitem__(key, text) at `time`, for a text that fits: expire,
\* make room unless the key is held with at least this size, store the
\* text, move the key to the most recently used end, set its expiry.
setitem(c, key, text, time) ==
    LET size == get_size(text)
        c1   == expire(c, time)
        c2   == IF ~Has(c1, key) \/ Entry(c1, key).size < size
                THEN popitems(c1, size) ELSE c1
    IN Append(Without(c2, key),
              [key |-> key, value |-> text, size |-> size,
               expires |-> time + ttl_seconds])

\* stats(): len(self.cache) counts the entries that have not expired;
\* a TTLCache has no attribute `hits` or `misses`, so getattr gives the
\* default.
NoCounter == 0

stats(c, time) ==
    [size |-> Len(expire(c, time)), max_size |-> cache_size_bytes,
     ttl |-> ttl_seconds, hits |-> NoCounter, misses |-> NoCounter]

\* The keys of other entries that popitem() removed during
\* __setitem__(key, text): entries that had not expired.
popped(c, key, text, time) ==
    {k \in {c[i].key : i \in 1..Len(c)} \ {key} :
        Has(expire(c, time), k) /\ ~Has(setitem(c, key, text, time), k)}

\* key in self.cache
contains(c, key, time) == Has(c, key) /\ ~Expired(Entry(c, key), time)

\* ---------------------------------------------------------- ContextManager
MAX_TOKENS == 4096    \* Config.MAX_TOKENS
RefLimit   == 5       \* refs[:5]
FunctionEstimate == 500
ClassEstimate    == 2000
DefaultEstimate  == 1000

Scopes == {"function", "class", "file"}

\* Queries, as sequences of tokens: "a.py:f".
CtxQueries == {<<"a.py", ":", "f">>}

\* _generate_cache_key: sha256 of f"{query}:{scope}:{max_tokens}"; the
\* digest stands for the text it was taken of.
generate_cache_key(query, scope, max_tokens) ==
    query \o <<":", scope, ":", ToString(max_tokens)>>

Positions(query, tok) == {i \in 1..Len(query) : query[i] = tok}

\* A split at the last separator.
Last(S) == CHOOSE i \in S : \A j \in S : i >= j

\* str.split(sep, 1) and parts[1] of a two-part split: the first separator.
First(S) == CHOOSE i \in S : \A j \in S : i <= j

\* _parse_query without the file lookups: the part before the first ":"
\* and the symbol, or nothing and the second part of "a.b", or nothing and
\* the query.
parse_query(query) ==
    IF Positions(query, ":") # {}
    THEN [file_part |-> SubSeq(query, 1, First(Positions(query, ":")) - 1),
          symbol |-> SubSeq(query, First(Positions(query, ":")) + 1, Len(query))]
    ELSE IF Cardinality(Positions(query, ".")) = 1
    THEN [file_part |-> <<>>,
          symbol |-> SubSeq(query, First(Positions(query, ".")) + 1, Len(query))]
    ELSE [file_part |-> <<>>, symbol |-> query]

\* Queries as texts, one character per element.
MaxQuery == 4         \* characters of a query

QueryChars == {"u", ":", "."}

\* What the file system holds for the part before the first ":":
\* os.path.exists(file_part) is true ("exists"); it is false and
\* _find_file_in_workspace finds a file of that name ("found"); neither.
Lookups == {"exists", "found", "none"}

NoFile == [resolved |-> FALSE, path |-> <<>>]

\* os.path.join(root, file_name), for the directory the walk found it in.
FoundFile(file_name) == [resolved |-> TRUE, path |-> <<"/w/">> \o file_name]

\* _parse_query: (file_path, symbol_name), file_path None when unresolved.
parse_query_files(query, lookup) ==
    LET parts == parse_query(query)
    IN IF Positions(query, ":") # {}
       THEN CASE lookup = "exists" ->
                    [file |-> [resolved |-> TRUE, path |-> parts.file_part],
                     symbol |-> parts.symbol]
              [] lookup = "found"  ->
                    [file |-> FoundFile(parts.file_part), symbol |-> parts.symbol]
              [] OTHER             -> [file |-> NoFile, symbol |-> parts.symbol]
       ELSE [file |-> NoFile, symbol |-> parts.symbol]

\* A _parse_query call: its input and, once it has run, what it returned.
NoParse == [called |-> FALSE, query |-> <<>>, lookup |-> "none",
            file |-> NoFile, symbol |-> <<>>]

\* Paths: "a.py" is the relative spelling of "/w/a.py".
Abs(path) == IF path = "a.py" THEN "/w/a.py" ELSE path

SameFile(p, q) == Abs(p) = Abs(q)

\* Symbols a language server reports: a function f and a class C.
SymF == [name |-> "f", kind |-> 12, line |-> 3]
SymC == [name |-> "C", kind |-> 5, line |-> 1]

FileSymbolAnswers == {<<>>, <<SymF>>, <<SymC, SymF>>}

\* _get_symbol_kind_name
get_symbol_kind_name(kind) ==
    CASE kind = 5  -> "Class"
      [] kind = 6  -> "Method"
      [] kind = 12 -> "Function"
      [] kind = 13 -> "Variable"
      [] OTHER     -> "Unknown"

\* _format_symbol
format_symbol(lsp_symbol, file_path) ==
    [name |-> lsp_symbol.name, kind |-> get_symbol_kind_name(lsp_symbol.kind),
     file |-> file_path, line |-> lsp_symbol.line]

\* symbol_name in symbol.get("name", "")
NameIn(symbol_name, lsp_symbol) == symbol_name = <<lsp_symbol.name>>

\* The filter of _extract_symbols for each scope.
Selected(lsp_symbol, symbol_name, scope) ==
    CASE scope = "function" -> NameIn(symbol_name, lsp_symbol)
      [] scope = "class"    -> lsp_symbol.kind = 5 \/ NameIn(symbol_name, lsp_symbol)
      [] scope = "file"     -> TRUE
      [] OTHER              -> FALSE

RECURSIVE FormatSelected(_, _, _, _)
FormatSelected(file_symbols, symbol_name, scope, file_path) ==
    IF file_symbols = <<>> THEN <<>>
    ELSE (IF Selected(Head(file_symbols), symbol_name, scope)
          THEN <<format_symbol(Head(file_symbols), file_path)>> ELSE <<>>)
         \o FormatSelected(Tail(file_symbols), symbol_name, scope, file_path)

\* An extraction without the fallback.
extract_symbols_nostub(file_symbols, symbol_name, scope, file_path, exists) ==
    FormatSelected(file_symbols, symbol_name, scope, file_path)

\* _extract_symbols: the selected symbols, or one placeholder when there
\* are none and the file exists.
extract_symbols(file_symbols, symbol_name, scope, file_path, exists) ==
    LET symbols == FormatSelected(file_symbols, symbol_name, scope, file_path)
    IN IF symbols = <<>> /\ exists
       THEN <<[name |-> symbol_name[1], kind |-> "Unknown",
               file |-> file_path, line |-> 1]>>
       ELSE symbols

\* _extract_dependencies: every symbol carries the same file; a read that
\* fails or a missing file is passed over, and a module is listed once.
ReadOutcomes == {"ok", "missing", "error"}

extract_dependencies(symbols, outcomes, modules) ==
    IF \E i \in 1..Len(symbols) : outcomes[i] = "ok" THEN modules ELSE <<>>

\* The slice refs[:5].
FirstRefs(refs) == SubSeq(refs, 1, IF Len(refs) < RefLimit THEN Len(refs) ELSE RefLimit)

\* if ref_file and ref_file != file_path
KeepRef(ref_file, file_path) == ref_file # "" /\ ref_file # file_path

RECURSIVE KeptRefs(_, _, _)
KeptRefs(refs, file_path, name) ==
    IF refs = <<>> THEN <<>>
    ELSE (IF KeepRef(Head(refs), file_path)
          THEN <<[file |-> Head(refs), context |-> name]>> ELSE <<>>)
         \o KeptRefs(Tail(refs), file_path, name)

\* One iteration of _extract_references: the references kept for a symbol.
symbol_references(symbol, refs) ==
    KeptRefs(FirstRefs(refs), symbol.file, symbol.name)

\* _estimate_raw_tokens
estimate_raw_tokens(filecase, scope, file_tokens) ==
    CASE filecase = "missing" -> 0
      [] filecase = "error"   -> DefaultEstimate
      [] scope = "function"   -> FunctionEstimate
      [] scope = "class"      -> ClassEstimate
      [] OTHER                -> file_tokens

\* A variant without the floor at zero.
tokens_saved_signed(raw_tokens, optimized_tokens) == raw_tokens - optimized_tokens

\* tokens_saved = max(0, raw_tokens - optimized_tokens)
tokens_saved(raw_tokens, optimized_tokens) ==
    IF raw_tokens - optimized_tokens > 0 THEN raw_tokens - optimized_tokens ELSE 0

FileTokens == {3000}

OptimizedTokens == {400, 2500}

\* The payload of get_context: a dict of four entries, whose JSON body
\* holds the four keys and grows with the number of items listed.
CtxResult(symbols, dependencies, references, saved) ==
    [t |-> "dict", k |-> "str",
     n |-> 2 + Len(symbols) + Len(dependencies) + Len(references),
     body |-> <<symbols, dependencies, references, saved>>]

\* A payload that claims savings.
nonempty_result == CtxResult(<<>>, <<>>, <<>>, 1)

\* _empty_result
empty_result == CtxResult(<<>>, <<>>, <<>>, 0)

saved_of(result) == result.body[4]

\* A lookup whose result is never taken.
NeverTruthy(v) == FALSE

\* if cached_result: a dict is true when it has entries.
Truthy(v) == v.t = "dict" /\ Len(v.body) > 0

\* What get_references may answer inside get_context.
CtxRefAnswers == {<<>>, <<"/w/b.py">>, <<"/w/a.py", "/w/b.py">>}

NoCtx == [pc |-> "idle", query |-> <<>>, scope |-> "", key |-> <<>>,
          file_path |-> "", symbols |-> <<>>, dependencies |-> <<>>,
          references |-> <<>>, idx |-> 0, requests |-> 0, resolved |-> FALSE]

NoCtxRes == [status |-> "none", stage |-> "", key |-> <<>>, value |-> empty_result,
             requests |-> 0, resolved |-> FALSE]

\* ------------------------------------------ ContextManager._extract_references
MaxRefs == 6          \* references a language server returns for one symbol

\* The file a returned location names: the symbol's own file, another one,
\* or none (a location without uri).
RefFiles == {"/w/a.py", "/w/b.py", ""}

\* The reference query of one symbol: the file the symbol is defined in,
\* the locations the registry returns, and, once the loop body has run,
\* the references it kept.
NoRefCall == [called |-> FALSE, file_path |-> "/w/a.py", raw |-> <<>>, kept |-> <<>>]

\* ------------------------------------------------ ContextManager.apply_edit
MaxLines == 3         \* lines of a file before the call
MaxEdits == 2         \* edits in one batch

\* A file: the lines between its line ends, and the line end it uses.
FileOf(lines, eol) == [lines |-> lines, eol |-> eol]

Files == {FileOf(SubSeq(<<"a", "b", "c">>, 1, n), eol) :
             n \in 1..MaxLines, eol \in {"\n", "\r\n"}}

\* An edit: {type, line, text}.
EditOf(type, line, text) == [type |-> type, line |-> line, text |-> text]

Edits == {EditOf(type, line, text) :
             type \in {"replace", "insert", "delete"},
             line \in -1..(MaxLines + 1), text \in {"x", "y"}}

\* open(file_path, 'r').read(): every line end is read as "\n", and
\* content.split('\n') gives the lines.
read_lines(file) == file.lines

\* open(file_path, 'w').write('\n'.join(lines)): "\n" is written as the
\* platform's line end, "\n".
write_lines(lines) == FileOf(lines, "\n")

\* sorted(edits, key=line, reverse=True): a stable sort, so edits of one
\* line keep the order in which they are listed.
RECURSIVE InsertSorted(_, _)
InsertSorted(sorted, edit) ==
    IF sorted = <<>> THEN <<edit>>
    ELSE IF Head(sorted).line >= edit.line
         THEN <<Head(sorted)>> \o InsertSorted(Tail(sorted), edit)
         ELSE <<edit>> \o sorted

RECURSIVE sorted_edits(_)
sorted_edits(edits) ==
    IF edits = <<>> THEN <<>>
    ELSE InsertSorted(sorted_edits(SubSeq(edits, 1, Len(edits) - 1)),
                      edits[Len(edits)])

\* The tests of the loop body, on the lines as they are when the edit is
\* reached.
Applies(edit, lines) ==
    IF edit.type = "insert"
    THEN 0 <= edit.line /\ edit.line <= Len(lines)
    ELSE 0 <= edit.line /\ edit.line < Len(lines)

\* lines[line_num] = new_text / lines.insert(line_num, new_text) /
\* del lines[line_num], for a 0-based line_num.
apply_one(lines, edit) ==
    CASE edit.type = "replace" -> [lines EXCEPT ![edit.line + 1] = edit.text]
      [] edit.type = "insert"  ->
            SubSeq(lines, 1, edit.line) \o <<edit.text>>
               \o SubSeq(lines, edit.line + 1, Len(lines))
      [] OTHER                 ->
            SubSeq(lines, 1, edit.line) \o SubSeq(lines, edit.line + 2, Len(lines))

\* The loop over sorted_edits: the lines and the count it ends with.
RECURSIVE apply_sorted(_, _, _)
apply_sorted(lines, edits, edits_applied) ==
    IF edits = <<>> THEN [lines |-> lines, edits_applied |-> edits_applied]
    ELSE IF Applies(Head(edits), lines)
         THEN apply_sorted(apply_one(lines, Head(edits)), Tail(edits), edits_applied + 1)
         ELSE apply_sorted(lines, Tail(edits), edits_applied)

\* An apply_edit call: the file and the batch it is given and, once it has
\* run, the file it leaves and what it returns.
EditCall(file, edits) ==
    [called |-> FALSE, exists |-> TRUE, before |-> file, edits |-> edits,
     after |-> file, success |-> FALSE, edits_applied |-> 0]

NoEditRes == EditCall(FileOf(<<"a">>, "\n"), <<>>)

\* ----------------------------------------------------------- MCPStdioServer
MaxRequests == 3      \* request lines read from stdin

NoId == 0

\* request.get("id"): absent, or one of two ids.
RequestIds == {NoId, 1, 2}

\* The requests that differ for handle_request: by method, and for
\* tools/call by tool name.
RequestKinds == {"initialize", "tools/list", "shutdown", "unknown method",
                 "find_symbol", "get_context", "apply_edit", "unknown tool"}

\* The calls handle_request awaits.
Awaited == {"shutdown", "find_symbol", "get_context", "apply_edit"}

\* The calls that send requests to a language server.
UsesBackend == {"shutdown", "find_symbol", "get_context"}

InternalError == 32603    \* the code field is -32603

NoSrv == [pc |-> "read", id |-> NoId, kind |-> "", seq |-> 0, blocked |-> FALSE]

\* write_response of the success path
ResultResponse(seq, id) == [seq |-> seq, id |-> id, kind |-> "result", code |-> 0]

\* write_response of the except path
ErrorResponse(seq, id) ==
    [seq |-> seq, id |-> id, kind |-> "error", code |-> 0 - InternalError]

\* if request_id is not None
HasId(id) == id # NoId

Written1(o, response) == IF HasId(response.id) THEN Append(o, response) ELSE o

Init ==
    /\ servers = <<>>
    /\ initialized = FALSE
    /\ sessions = <<>>
    /\ procs = <<>>
    /\ pc = "boot"
    /\ cur = NoCur
    /\ waited = 0
    /\ lastResult = NoResult
    /\ cache = <<>>
    /\ now = 0
    /\ setAt = [k \in Keys |-> -1]
    /\ cres = NoCall
    /\ ctxCache = <<>>
    /\ ctx = NoCtx
    /\ ctxRes = NoCtxRes
    /\ refCall = NoRefCall
    /\ editRes = NoEditRes
    /\ srv = NoSrv
    /\ out = <<>>
    /\ parsed = NoParse

\* ------------------------------------------------- LSPClient._start_server
NewSession(lang, pid) ==
    [language |-> lang, process |-> pid, reader |-> pid, writer |-> pid,
     request_id |-> 0]

NewProc(sid) == [owner |-> sid, state |-> "running", inbox |-> <<>>,
                 outbox |-> <<>>, notified |-> ""]

\* An exception leaves the operation; one that leaves initialize() ends the
\* program (mcp_stdio_server.run and the FastAPI lifespan do not catch it).
AfterRaise(op) == IF op = "initialize" THEN "dead" ELSE "idle"

\* language not in self.servers: LSPServerProcess(...) and start(), where
\* subprocess.Popen raises (command not found, fork failure).
SpawnFail(op, ext, lang) ==
    /\ lang \in LANGUAGE_SERVERS
    /\ ~Registered(lang)
    /\ Len(sessions) < MaxSessions
    /\ sessions' = Append(sessions, NewSession(lang, 0))
    /\ lastResult' = Raised([NoCur EXCEPT !.op = op, !.lang = lang,
                                          !.sid = Len(sessions) + 1], "spawn")
    /\ pc' = AfterRaise(op)
    /\ cur' = NoCur
    /\ UNCHANGED <<servers, initialized, procs, waited>>

\* language not in self.servers: Popen succeeds, reader and writer are
\* attached, _initialize() writes the initialize request and blocks reading.
SpawnOk(op, ext, lang) ==
    /\ lang \in LANGUAGE_SERVERS
    /\ ~Registered(lang)
    /\ Len(sessions) < MaxSessions
    /\ LET sid == Len(sessions) + 1
           pid == Len(procs) + 1
       IN /\ sessions' = Append(sessions,
                            [NewSession(lang, pid) EXCEPT !.request_id = 1])
          /\ procs' = Written(Append(procs, NewProc(sid)), pid,
                              Request(1, "initialize"))
          /\ cur' = [NoCur EXCEPT !.op = op, !.lang = lang,
                                  !.sid = sid, !.msg_id = 1]
    /\ pc' = "init_wait"
    /\ waited' = 0
    /\ lastResult' = NoResult
    /\ UNCHANGED <<servers, initialized>>

\* LSPServerProcess._request up to its read loop, on session s for query op:
\* _get_next_id(), then self.writer.write(...), which is an AttributeError
\* on a session whose writer is None.
Delegate(op, ext, lang, s) ==
    LET id == sessions[s].request_id + 1
        c  == [NoCur EXCEPT !.op = op, !.lang = lang, !.sid = s,
                            !.msg_id = id]
    IN /\ sessions' = [sessions EXCEPT ![s].request_id = id]
       /\ IF sessions[s].writer = 0
          THEN /\ lastResult' = Raised(c, "attribute_error")
               /\ pc' = "idle"
               /\ cur' = NoCur
               /\ UNCHANGED procs
          ELSE /\ procs' = Written(procs, sessions[s].writer,
                                   Request(id, QueryMethod(op)))
               /\ pc' = "op_wait"
               /\ cur' = c
               /\ lastResult' = NoResult
       /\ waited' = 0
       /\ UNCHANGED <<servers, initialized>>

\* LSPClient.initialize: _start_server("python"), then initialized = True.
Initialize ==
    /\ UNCHANGED nonLspVars
    /\ pc = "boot"
    /\ \/ SpawnOk("initialize", "", "python")
       \/ SpawnFail("initialize", "", "python")

\* get_definition / get_references / get_symbols on a file whose language
\* has no configured server: _start_server returns, nothing is delegated.
QueryUnconfigured(op, ext) ==
    LET lang == get_language_from_file(ext)
    IN /\ pc = "idle"
       /\ UNCHANGED nonLspVars
       /\ lang \notin LANGUAGE_SERVERS
       /\ ~Registered(lang)
       /\ lastResult' = Ok([NoCur EXCEPT !.op = op, !.lang = lang],
                           EmptyResult(op))
       /\ UNCHANGED <<servers, initialized, sessions, procs, pc, cur, waited>>

\* ... on a file whose language has a registered session: reuse it.
QueryRegistered(op, ext) ==
    LET lang == get_language_from_file(ext)
    IN /\ pc = "idle"
       /\ UNCHANGED nonLspVars
       /\ Registered(lang)
       /\ sessions[SidOf(lang)].request_id < MaxId
       /\ Delegate(op, ext, lang, SidOf(lang))

\* ... on a file whose language is configured and not registered: start it.
QueryStart(op, ext) ==
    LET lang == get_language_from_file(ext)
    IN /\ pc = "idle"
       /\ UNCHANGED nonLspVars
       /\ \/ SpawnOk(op, ext, lang)
          \/ SpawnFail(op, ext, lang)

Query(op, ext) ==
    \/ QueryUnconfigured(op, ext)
    \/ QueryRegistered(op, ext)
    \/ QueryStart(op, ext)

\* ------------------------------------ LSPServerProcess._request: read loop
Blocked == pc \in {"init_wait", "op_wait", "shutdown_wait"}

\* The pipe the blocked request reads: self.reader of the session.
ReadPid == sessions[cur.sid].reader

HasFrame == Blocked /\ procs[ReadPid].outbox # <<>>

NextFrame == Head(procs[ReadPid].outbox)

Consumed == [procs EXCEPT ![ReadPid].outbox = Tail(@)]

\* The pipes of a process whose reader and writer nobody holds any more
\* (the fields were cleared, or the session object was dropped): what they
\* still buffer is never read.
Dropped(ps, p) == [ps EXCEPT ![p].inbox = <<>>, ![p].outbox = <<>>]

\* self.process = None; self.reader = None; self.writer = None
Cleared(ss, s) == [ss EXCEPT ![s].process = 0, ![s].reader = 0, ![s].writer = 0]

\* A frame whose id is not msg_id: the loop reads on.
ReadDiscard ==
    /\ UNCHANGED nonLspVars
    /\ HasFrame
    /\ ~Matches(NextFrame, cur.msg_id)
    /\ procs' = Consumed
    /\ cur' = [cur EXCEPT !.skipped = TRUE]
    /\ UNCHANGED <<servers, initialized, sessions, pc, waited, lastResult>>

\* "error" in msg: raise Exception("LSP error: ...").  In start() the
\* exception is logged and re-raised; in stop() it is no TimeoutExpired, so
\* only the finally clause runs; shutdown() does not catch it.
ReadError ==
    /\ UNCHANGED nonLspVars
    /\ HasFrame
    /\ Matches(NextFrame, cur.msg_id)
    /\ IsError(NextFrame)
    /\ procs' = IF pc = "op_wait" THEN Consumed ELSE Dropped(procs, ReadPid)
    /\ sessions' = IF pc = "shutdown_wait" THEN Cleared(sessions, cur.sid)
                   ELSE sessions
    /\ lastResult' = [Raised(cur, "lsp_error") EXCEPT
                          !.value = ErrorPayload(NextFrame)]
    /\ pc' = AfterRaise(cur.op)
    /\ cur' = NoCur
    /\ waited' = 0
    /\ UNCHANGED <<servers, initialized>>

\* self.servers[language] = server
WithServer(lang, s) ==
    IF Registered(lang)
    THEN [i \in 1..Len(servers) |->
            IF servers[i].lang = lang THEN [lang |-> lang, sid |-> s]
            ELSE servers[i]]
    ELSE Append(servers, [lang |-> lang, sid |-> s])

\* The reply to initialize: _notify("initialized"), start() returns and
\* _start_server registers the session.  initialize() then sets initialized;
\* a query goes on to delegate to the session just registered.
ReadInitResult ==
    /\ UNCHANGED nonLspVars
    /\ HasFrame
    /\ pc = "init_wait"
    /\ Matches(NextFrame, cur.msg_id)
    /\ ~IsError(NextFrame)
    /\ servers' = WithServer(cur.lang, cur.sid)
    /\ waited' = 0
    /\ IF cur.op = "initialize"
       THEN /\ procs' = Written(Consumed, sessions[cur.sid].writer,
                                Notification("initialized"))
            /\ initialized' = TRUE
            /\ lastResult' = Ok(cur, NoneVal)
            /\ pc' = "idle"
            /\ cur' = NoCur
            /\ UNCHANGED sessions
       ELSE LET id == sessions[cur.sid].request_id + 1
            IN /\ procs' = Written(Written(Consumed, sessions[cur.sid].writer,
                                           Notification("initialized")),
                                   sessions[cur.sid].writer,
                                   Request(id, QueryMethod(cur.op)))
               /\ sessions' = [sessions EXCEPT ![cur.sid].request_id = id]
               /\ cur' = [cur EXCEPT !.msg_id = id, !.skipped = FALSE]
               /\ pc' = "op_wait"
               /\ UNCHANGED <<initialized, lastResult>>

\* The reply to a query: return msg.get("result").
ReadQueryResult ==
    /\ UNCHANGED nonLspVars
    /\ HasFrame
    /\ pc = "op_wait"
    /\ Matches(NextFrame, cur.msg_id)
    /\ ~IsError(NextFrame)
    /\ procs' = Consumed
    /\ lastResult' = Ok(cur, QueryResult(cur.op, NextFrame.result))
    /\ pc' = "idle"
    /\ cur' = NoCur
    /\ UNCHANGED <<servers, initialized, sessions, waited>>

\* ------------------------------------------------------ LSPClient.shutdown
ShutdownSids == {servers[i].sid : i \in 1..Len(servers)}

\* shutdown(): start iterating self.servers.values().
Shutdown ==
    /\ UNCHANGED nonLspVars
    /\ pc = "idle"
    /\ \A s \in ShutdownSids : sessions[s].request_id < MaxId
    /\ pc' = "shutdown_loop"
    /\ cur' = [NoCur EXCEPT !.op = "shutdown", !.idx = 1]
    /\ lastResult' = NoResult
    /\ UNCHANGED <<servers, initialized, sessions, procs, waited>>

\* await server.stop() for the next server: nothing when its process is
\* None; else _request("shutdown") up to its read loop.
StopServer ==
    /\ UNCHANGED nonLspVars
    /\ pc = "shutdown_loop"
    /\ cur.idx <= Len(servers)
    /\ LET s  == servers[cur.idx].sid
           id == sessions[s].request_id + 1
       IN IF StopGuard(s)
          THEN IF sessions[s].writer = 0
               THEN /\ sessions' = Cleared([sessions EXCEPT ![s].request_id = id], s)
                    /\ lastResult' = Raised([cur EXCEPT !.sid = s, !.msg_id = id],
                                            "attribute_error")
                    /\ pc' = "idle"
                    /\ cur' = NoCur
                    /\ UNCHANGED <<procs, waited>>
               ELSE /\ sessions' = [sessions EXCEPT ![s].request_id = id]
                    /\ procs' = Written(procs, sessions[s].writer,
                                        Request(id, "shutdown"))
                    /\ cur' = [cur EXCEPT !.sid = s, !.msg_id = id,
                                          !.skipped = FALSE]
                    /\ pc' = "shutdown_wait"
                    /\ waited' = 0
                    /\ UNCHANGED lastResult
          ELSE /\ cur' = [cur EXCEPT !.idx = @ + 1]
               /\ UNCHANGED <<sessions, procs, pc, waited, lastResult>>
    /\ UNCHANGED <<servers, initialized>>

\* The reply to shutdown: _notify("exit"), then process.wait(timeout=5).
ReadShutdownResult ==
    /\ UNCHANGED nonLspVars
    /\ HasFrame
    /\ pc = "shutdown_wait"
    /\ Matches(NextFrame, cur.msg_id)
    /\ ~IsError(NextFrame)
    /\ procs' = Written(Consumed, sessions[cur.sid].writer, Notification("exit"))
    /\ pc' = "exit_wait"
    /\ waited' = 0
    /\ UNCHANGED <<servers, initialized, sessions, cur, lastResult>>

\* process.wait returns: the process has exited.  finally: clear the fields.
WaitReturns ==
    /\ UNCHANGED nonLspVars
    /\ pc = "exit_wait"
    /\ ~Running(sessions[cur.sid].process)
    /\ sessions' = Cleared(sessions, cur.sid)
    /\ procs' = Dropped(procs, sessions[cur.sid].process)
    /\ cur' = [cur EXCEPT !.idx = @ + 1]
    /\ pc' = "shutdown_loop"
    /\ waited' = 0
    /\ UNCHANGED <<servers, initialized, lastResult>>

\* subprocess.TimeoutExpired after the grace period: self.process.kill().
WaitTimeout ==
    /\ UNCHANGED nonLspVars
    /\ pc = "exit_wait"
    /\ Running(sessions[cur.sid].process)
    /\ waited >= GraceTimeout
    /\ procs' = Dropped([procs EXCEPT ![sessions[cur.sid].process].state = "killed"],
                         sessions[cur.sid].process)
    /\ sessions' = Cleared(sessions, cur.sid)
    /\ cur' = [cur EXCEPT !.idx = @ + 1]
    /\ pc' = "shutdown_loop"
    /\ waited' = 0
    /\ UNCHANGED <<servers, initialized, lastResult>>

\* After the loop: self.servers.clear(); self.initialized = False.
ShutdownDone ==
    /\ UNCHANGED nonLspVars
    /\ pc = "shutdown_loop"
    /\ cur.idx > Len(servers)
    /\ servers' = <<>>
    /\ initialized' = FALSE
    /\ lastResult' = Ok(cur, NoneVal)
    /\ pc' = "idle"
    /\ cur' = NoCur
    /\ UNCHANGED <<sessions, procs, waited>>

\* Time passes while the thread is blocked: in readline on an empty pipe,
\* waiting for the reply to initialize, or in process.wait on a running
\* process (which gives up when the grace period is over).
Tick ==
    /\ UNCHANGED nonLspVars
    /\ \/ pc = "init_wait" /\ procs[ReadPid].outbox = <<>>
       \/ /\ pc = "exit_wait"
          /\ Running(sessions[cur.sid].process)
          /\ waited < GraceTimeout
    /\ waited < MaxWait
    /\ waited' = waited + 1
    /\ UNCHANGED <<servers, initialized, sessions, procs, pc, cur, lastResult>>

\* ------------------------------------------------------ the backend process
\* What a backend does shows only to a thread blocked on it, reading its
\* pipe or waiting for its exit: the backend takes its steps then.
WaitedOn(p) ==
    \/ Blocked /\ ReadPid = p
    \/ pc = "exit_wait" /\ sessions[cur.sid].process = p

Frame(id, kind) == [id |-> id, kind |-> kind, result |-> id]

\* The backend answers the oldest request it has read, with a result or
\* with an error object.
BackendReply(p, kind) ==
    /\ UNCHANGED nonLspVars
    /\ Running(p)
    /\ WaitedOn(p)
    /\ procs[p].inbox # <<>>
    /\ Head(procs[p].inbox).id # 0
    /\ Len(procs[p].outbox) < MaxPipe
    /\ procs' = [procs EXCEPT ![p].inbox = Tail(@),
                              ![p].outbox = Append(@, Frame(Head(procs[p].inbox).id, kind))]
    /\ UNCHANGED <<servers, initialized, sessions, pc, cur, waited, lastResult>>

\* The backend reads a request and sends nothing back.
BackendIgnore(p) ==
    /\ UNCHANGED nonLspVars
    /\ Running(p)
    /\ WaitedOn(p)
    /\ procs[p].inbox # <<>>
    /\ procs' = [procs EXCEPT ![p].inbox = Tail(@)]
    /\ UNCHANGED <<servers, initialized, sessions, pc, cur, waited, lastResult>>

\* The backend sends a frame that answers no request it holds: a
\* notification (id 0), a late or duplicate reply, a reply bearing an id
\* not yet allocated.
BackendUnsolicited(p, id) ==
    /\ UNCHANGED nonLspVars
    /\ Running(p)
    /\ Blocked /\ ReadPid = p
    /\ \A i \in 1..Len(procs[p].inbox) : procs[p].inbox[i].id # id
    /\ Len(procs[p].outbox) < MaxPipe
    /\ procs' = [procs EXCEPT ![p].outbox = Append(@, Frame(id, "result"))]
    /\ UNCHANGED <<servers, initialized, sessions, pc, cur, waited, lastResult>>

\* The backend exits: on the exit notification, or on its own (a crash).
BackendExit(p) ==
    /\ UNCHANGED nonLspVars
    /\ Running(p)
    /\ WaitedOn(p)
    /\ procs' = [procs EXCEPT ![p].state = "exited", ![p].inbox = <<>>]
    /\ UNCHANGED <<servers, initialized, sessions, pc, cur, waited, lastResult>>

LspNext ==
    \/ Initialize
    \/ \E op \in Queries, ext \in Exts : Query(op, ext)
    \/ ReadDiscard
    \/ ReadError
    \/ ReadInitResult
    \/ ReadQueryResult
    \/ Shutdown
    \/ StopServer
    \/ ReadShutdownResult
    \/ WaitReturns
    \/ WaitTimeout
    \/ ShutdownDone
    \/ Tick
    \/ \E p \in 1..Len(procs), kind \in {"result", "error"} : BackendReply(p, kind)
    \/ \E p \in 1..Len(procs) : BackendIgnore(p)
    \/ \E p \in 1..Len(procs), id \in 0..MaxId : BackendUnsolicited(p, id)
    \/ \E p \in 1..Len(procs) : BackendExit(p)

SpecLsp == Init /\ [][LspNext]_vars

\* The read loop goes on as long as frames arrive: a blocking read returns
\* as soon as the pipe holds a frame.
ReadLoop ==
    \/ ReadDiscard
    \/ ReadError
    \/ ReadInitResult
    \/ ReadQueryResult
    \/ ReadShutdownResult

SpecLspLive == SpecLsp /\ WF_vars(ReadLoop)

\* ------------------------------------------------------ CacheManager calls
\* set(key, value): json.dumps raises for a value it cannot serialize, and
\* Cache.__setitem__ raises ValueError("value too large"), after the expired
\* entries are dropped, for a text larger than maxsize; set() then returns
\* False.  Else the text is stored and set() returns True.
CacheSet(key, v) ==
    /\ UNCHANGED nonCacheVars
    /\ IF ~Serializable(v)
       THEN /\ cres' = [op |-> "set", key |-> key, arg |-> v, ok |-> FALSE,
                        val |-> NoCall.val, time |-> now, raised |-> FALSE, evicted |-> {}]
            /\ UNCHANGED <<cache, setAt>>
       ELSE IF TooLarge(get_size(json_dumps(v)))
       THEN /\ cache' = expire(cache, now)
            /\ cres' = [op |-> "set", key |-> key, arg |-> v, ok |-> FALSE,
                        val |-> NoCall.val, time |-> now, raised |-> FALSE, evicted |-> {}]
            /\ UNCHANGED setAt
       ELSE /\ cache' = setitem(cache, key, json_dumps(v), now)
            /\ setAt' = [setAt EXCEPT ![key] = now]
            /\ cres' = [op |-> "set", key |-> key, arg |-> v, ok |-> TRUE,
                        val |-> NoCall.val, time |-> now, raised |-> FALSE,
                        evicted |-> popped(cache, key, json_dumps(v), now)]
    /\ UNCHANGED now

\* get(key): self.cache.get(key) is the stored text, moved to the most
\* recently used end, when the key is held and not expired, else None.  A
\* text that json.loads rejects ends in the except clause.
CacheGet(key) ==
    /\ UNCHANGED nonCacheVars
    /\ IF contains(cache, key, now)
       THEN /\ cache' = Append(Without(cache, key), Entry(cache, key))
            /\ IF Deserializable(Entry(cache, key).value)
               THEN cres' = [op |-> "get", key |-> key, arg |-> NoCall.arg,
                             ok |-> TRUE,
                             val |-> get_return(Entry(cache, key).value),
                             time |-> now, raised |-> FALSE, evicted |-> {}]
               ELSE cres' = [op |-> "get", key |-> key, arg |-> NoCall.arg,
                             ok |-> FALSE, val |-> NoCall.val, time |-> now,
                             raised |-> get_raises, evicted |-> {}]
       ELSE /\ cres' = [op |-> "get", key |-> key, arg |-> NoCall.arg, ok |-> FALSE,
                        val |-> NoCall.val, time |-> now, raised |-> FALSE, evicted |-> {}]
            /\ UNCHANGED cache
    /\ UNCHANGED <<now, setAt>>

\* self.cache[key] = text by a holder of the manager, with a text that is
\* not JSON.
CacheStoreRaw(key) ==
    /\ UNCHANGED nonCacheVars
    /\ ~TooLarge(get_size(RawText))
    /\ cache' = setitem(cache, key, RawText, now)
    /\ setAt' = [setAt EXCEPT ![key] = now]
    /\ cres' = [NoCall EXCEPT !.op = "store", !.key = key, !.time = now]
    /\ UNCHANGED now

\* clear(): self.cache.clear()
CacheClear ==
    /\ UNCHANGED nonCacheVars
    /\ cache' = <<>>
    /\ cres' = [NoCall EXCEPT !.op = "clear", !.time = now]
    /\ UNCHANGED <<now, setAt>>

\* The monotonic clock advances.
CacheTick ==
    /\ UNCHANGED nonCacheVars
    /\ now < MaxTime
    /\ now' = now + 1
    /\ UNCHANGED <<cache, setAt, cres>>

CacheNext ==
    \/ \E key \in Keys, v \in Values : CacheSet(key, v)
    \/ \E key \in Keys : CacheGet(key)
    \/ \E key \in Keys : CacheStoreRaw(key)
    \/ CacheClear
    \/ CacheTick

SpecCache == Init /\ [][CacheNext]_vars

\* ------------------------------------------------ ContextManager.get_context
\* The call returns `value`.
CtxReturn(status, value) ==
    /\ ctxRes' = [status |-> status, stage |-> "", key |-> ctx.key, value |-> value,
                  requests |-> ctx.requests, resolved |-> ctx.resolved]
    /\ ctx' = NoCtx

\* The call ends with an exception raised in `stage`.
CtxRaise(stage, requests) ==
    /\ ctxRes' = [status |-> "raised", stage |-> stage, key |-> ctx.key,
                  value |-> empty_result, requests |-> requests,
                  resolved |-> ctx.resolved]
    /\ ctx' = NoCtx

\* get_context up to the cache lookup: a hit returns the cached payload.
CtxBegin(query, scope) ==
    /\ UNCHANGED nonCtxVars
    /\ ctx.pc = "idle"
    /\ LET key == generate_cache_key(query, scope, MAX_TOKENS)
           hit == contains(ctxCache, key, now)
       IN /\ ctxCache' = IF hit THEN Append(Without(ctxCache, key), Entry(ctxCache, key))
                                ELSE ctxCache
          /\ IF hit /\ Truthy(get_return(Entry(ctxCache, key).value))
             THEN /\ ctxRes' = [status |-> "hit", stage |-> "", key |-> key,
                                value |-> get_return(Entry(ctxCache, key).value),
                                requests |-> 0, resolved |-> FALSE]
                  /\ ctx' = NoCtx
             ELSE /\ ctx' = [NoCtx EXCEPT !.pc = "resolve", !.query = query,
                                          !.scope = scope, !.key = key]
                  /\ ctxRes' = NoCtxRes

\* _parse_query and _find_symbol_file: the file named in the query exists
\* ("typed"), a file is found by walking the workspace ("searched"), or
\* there is none.
CtxResolve(outcome) ==
    /\ UNCHANGED <<nonCtxVars, ctxCache>>
    /\ ctx.pc = "resolve"
    /\ outcome = "typed" => parse_query(ctx.query).file_part # <<>>
    /\ IF outcome = "none"
       THEN /\ ctxRes' = [status |-> "notfound", stage |-> "", key |-> ctx.key,
                          value |-> empty_result, requests |-> 0,
                          resolved |-> TRUE]
            /\ ctx' = NoCtx
       ELSE /\ ctx' = [ctx EXCEPT !.pc = "symbols", !.resolved = TRUE,
                           !.file_path = IF outcome = "typed"
                                         THEN parse_query(ctx.query).file_part[1]
                                         ELSE "/w/a.py"]
            /\ UNCHANGED ctxRes

\* _extract_symbols: the registry answers get_symbols.
CtxSymbols(file_symbols, exists) ==
    /\ UNCHANGED <<nonCtxVars, ctxCache>>
    /\ ctx.pc = "symbols"
    /\ ctx' = [ctx EXCEPT !.pc = "deps", !.requests = @ + 1,
                   !.symbols = extract_symbols(file_symbols,
                                   parse_query(ctx.query).symbol, ctx.scope,
                                   ctx.file_path, exists)]
    /\ UNCHANGED ctxRes

\* _extract_symbols: get_symbols raises.
CtxSymbolsFail ==
    /\ UNCHANGED <<nonCtxVars, ctxCache>>
    /\ ctx.pc = "symbols"
    /\ CtxRaise("symbols", ctx.requests + 1)

\* _extract_dependencies
CtxDependencies(outcomes, modules) ==
    /\ UNCHANGED <<nonCtxVars, ctxCache>>
    /\ ctx.pc = "deps"
    /\ ctx' = [ctx EXCEPT !.pc = IF ctx.symbols = <<>> THEN "tokens" ELSE "refs",
                   !.idx = 1,
                   !.dependencies = extract_dependencies(ctx.symbols, outcomes, modules)]
    /\ UNCHANGED ctxRes

\* _extract_references, one symbol: the registry answers get_references.
CtxReferences(refs) ==
    /\ UNCHANGED <<nonCtxVars, ctxCache>>
    /\ ctx.pc = "refs"
    /\ ctx' = [ctx EXCEPT !.pc = IF ctx.idx = Len(ctx.symbols) THEN "tokens" ELSE "refs",
                   !.idx = @ + 1, !.requests = @ + 1,
                   !.references = @ \o symbol_references(ctx.symbols[ctx.idx], refs)]
    /\ UNCHANGED ctxRes

\* _extract_references, one symbol: get_references raises; nothing in
\* _extract_references or get_context catches it.
CtxReferencesFail ==
    /\ UNCHANGED <<nonCtxVars, ctxCache>>
    /\ ctx.pc = "refs"
    /\ CtxRaise("references", ctx.requests + 1)

\* get_context from the token estimate on: tokens_saved, the result, and
\* self.cache.set(cache_key, result), whose outcome is not looked at.
CtxFinish(filecase, file_tokens, optimized_tokens) ==
    /\ UNCHANGED nonCtxVars
    /\ ctx.pc = "tokens"
    /\ LET raw_tokens == estimate_raw_tokens(filecase, ctx.scope, file_tokens)
           result == CtxResult(ctx.symbols, ctx.dependencies, ctx.references,
                               tokens_saved(raw_tokens, optimized_tokens))
       IN /\ ctxCache' = IF TooLarge(get_size(json_dumps(result)))
                         THEN expire(ctxCache, now)
                         ELSE setitem(ctxCache, ctx.key, json_dumps(result), now)
          /\ CtxReturn("computed", result)

CtxNext ==
    \/ \E query \in CtxQueries, scope \in Scopes : CtxBegin(query, scope)
    \/ \E outcome \in {"typed", "searched", "none"} : CtxResolve(outcome)
    \/ \E file_symbols \in FileSymbolAnswers, exists \in BOOLEAN :
          CtxSymbols(file_symbols, exists)
    \/ CtxSymbolsFail
    \/ \E outcomes \in [1..Len(ctx.symbols) -> ReadOutcomes],
          modules \in {<<>>, <<"os">>} :
          CtxDependencies(outcomes, modules)
    \/ \E refs \in CtxRefAnswers : CtxReferences(refs)
    \/ CtxReferencesFail
    \/ \E filecase \in ReadOutcomes, file_tokens \in FileTokens,
          optimized_tokens \in OptimizedTokens :
          CtxFinish(filecase, file_tokens, optimized_tokens)
    \/ CacheTick

SpecContext == Init /\ [][CtxNext]_vars

\* ------------------------------------------ ContextManager._extract_references
\* A symbol defined in file_path is about to be queried.
RefSymbol(file_path) ==
    /\ UNCHANGED <<lspVars, cacheVars, ctxVars, editVars, srvVars, parseVars>>
    /\ refCall.called \/ refCall.raw = <<>>
    /\ refCall' = [NoRefCall EXCEPT !.file_path = file_path]

\* The language server knows one more location of the symbol.
RefLocation(ref_file) ==
    /\ UNCHANGED <<lspVars, cacheVars, ctxVars, editVars, srvVars, parseVars>>
    /\ ~refCall.called
    /\ Len(refCall.raw) < MaxRefs
    /\ refCall' = [refCall EXCEPT !.raw = Append(@, ref_file)]

\* One iteration of the loop of _extract_references: get_references
\* returns the locations, and the loop body keeps some.
ExtractReferences ==
    /\ UNCHANGED <<lspVars, cacheVars, ctxVars, editVars, srvVars, parseVars>>
    /\ ~refCall.called
    /\ refCall' = [refCall EXCEPT !.called = TRUE,
                      !.kept = symbol_references(
                                  [name |-> "f", file |-> refCall.file_path],
                                  refCall.raw)]

RefsNext ==
    \/ \E file_path \in RefFiles \ {""} : RefSymbol(file_path)
    \/ \E ref_file \in RefFiles : RefLocation(ref_file)
    \/ ExtractReferences

SpecRefs == Init /\ [][RefsNext]_vars

\* ------------------------------------------------ ContextManager.apply_edit
\* A caller names a file for apply_edit: one that exists, or not.
EditFile(file, exists) ==
    /\ UNCHANGED <<lspVars, cacheVars, ctxVars, refVars, srvVars, parseVars>>
    /\ editRes.called \/ editRes.edits = <<>>
    /\ editRes' = [EditCall(file, <<>>) EXCEPT !.exists = exists]

\* The caller lists one more edit.
EditListed(edit) ==
    /\ UNCHANGED <<lspVars, cacheVars, ctxVars, refVars, srvVars, parseVars>>
    /\ ~editRes.called
    /\ Len(editRes.edits) < MaxEdits
    /\ editRes' = [editRes EXCEPT !.edits = Append(@, edit)]

\* apply_edit(file_path, edits): a missing file is reported; an existing
\* one is read, edited line by line and written back.
ApplyEdit ==
    /\ UNCHANGED <<lspVars, cacheVars, ctxVars, refVars, srvVars, parseVars>>
    /\ ~editRes.called
    /\ IF ~editRes.exists
       THEN editRes' = [editRes EXCEPT !.called = TRUE]
       ELSE LET done == apply_sorted(read_lines(editRes.before),
                                     sorted_edits(editRes.edits), 0)
            IN editRes' = [editRes EXCEPT !.called = TRUE,
                              !.after = write_lines(done.lines),
                              !.success = TRUE,
                              !.edits_applied = done.edits_applied]

EditNext ==
    \/ \E file \in Files, exists \in BOOLEAN : EditFile(file, exists)
    \/ \E edit \in Edits : EditListed(edit)
    \/ ApplyEdit

SpecEdit == Init /\ [][EditNext]_vars

\* ----------------------------------------------------------- MCPStdioServer
\* run(): a line is read and handle_request answers at once: initialize,
\* tools/list, an unknown method or an unknown tool.
SrvAnswer(id, kind) ==
    /\ UNCHANGED <<lspVars, cacheVars, ctxVars, refVars, editVars, parseVars>>
    /\ srv.pc = "read"
    /\ srv.seq < MaxRequests
    /\ kind \in RequestKinds \ Awaited
    /\ srv' = [srv EXCEPT !.seq = @ + 1, !.id = id, !.kind = kind]
    /\ out' = Written1(out, IF kind \in {"initialize", "tools/list"}
                            THEN ResultResponse(srv.seq + 1, id)
                            ELSE ErrorResponse(srv.seq + 1, id))

\* run(): a line is read and handle_request awaits find_symbol,
\* get_context, apply_edit or shutdown; the call may have to wait for a
\* language server's reply.
SrvCall(id, kind, blocked) ==
    /\ UNCHANGED <<lspVars, cacheVars, ctxVars, refVars, editVars, parseVars, out>>
    /\ srv.pc = "read"
    /\ srv.seq < MaxRequests
    /\ kind \in Awaited
    /\ blocked => kind \in UsesBackend
    /\ srv' = [pc |-> "call", id |-> id, kind |-> kind, seq |-> srv.seq + 1,
               blocked |-> blocked]

\* run(): a line that is not JSON, or JSON that is not an object, is logged.
SrvBadLine ==
    /\ UNCHANGED <<lspVars, cacheVars, ctxVars, refVars, editVars, parseVars, out>>
    /\ srv.pc = "read"
    /\ srv.seq < MaxRequests
    /\ srv' = [srv EXCEPT !.seq = @ + 1, !.id = NoId, !.kind = "bad line"]

\* The language server writes the reply the call is waiting for.
SrvBackendReplies ==
    /\ UNCHANGED <<lspVars, cacheVars, ctxVars, refVars, editVars, parseVars, out>>
    /\ srv.pc = "call"
    /\ srv.blocked
    /\ srv' = [srv EXCEPT !.blocked = FALSE]

\* The awaited call returns and the result is written.
SrvCallReturns ==
    /\ UNCHANGED <<lspVars, cacheVars, ctxVars, refVars, editVars, parseVars>>
    /\ srv.pc = "call"
    /\ ~srv.blocked
    /\ out' = Written1(out, ResultResponse(srv.seq, srv.id))
    /\ srv' = [srv EXCEPT !.pc = "read"]

\* The awaited call raises and the error is written.
SrvCallRaises ==
    /\ UNCHANGED <<lspVars, cacheVars, ctxVars, refVars, editVars, parseVars>>
    /\ srv.pc = "call"
    /\ ~srv.blocked
    /\ out' = Written1(out, ErrorResponse(srv.seq, srv.id))
    /\ srv' = [srv EXCEPT !.pc = "read"]

\* run(): stdin is at its end.
SrvEof ==
    /\ UNCHANGED <<lspVars, cacheVars, ctxVars, refVars, editVars, parseVars, out>>
    /\ srv.pc = "read"
    /\ srv' = [srv EXCEPT !.pc = "done"]

\* The steps the server takes by itself.
SrvStep == SrvCallReturns \/ SrvCallRaises

SrvNext ==
    \/ \E id \in RequestIds, kind \in RequestKinds : SrvAnswer(id, kind)
    \/ \E id \in RequestIds, kind \in RequestKinds, blocked \in BOOLEAN :
          SrvCall(id, kind, blocked)
    \/ SrvBadLine
    \/ SrvBackendReplies
    \/ SrvCallReturns
    \/ SrvCallRaises
    \/ SrvEof

SpecServer == Init /\ [][SrvNext]_vars

\* The event loop keeps running the handler; nothing makes a language
\* server reply.
SpecServerLive == SpecServer /\ WF_vars(SrvStep)

\* ------------------------------------------------ ContextManager._parse_query
\* A caller starts a new query text.
ParseNew ==
    /\ UNCHANGED <<lspVars, cacheVars, ctxVars, refVars, editVars, srvVars>>
    /\ parsed.called
    /\ parsed' = NoParse

\* The query text gets one more character.
ParseChar(ch) ==
    /\ UNCHANGED <<lspVars, cacheVars, ctxVars, refVars, editVars, srvVars>>
    /\ ~parsed.called
    /\ Len(parsed.query) < MaxQuery
    /\ parsed' = [parsed EXCEPT !.query = Append(@, ch)]

\* _parse_query(query), with the file system answering `lookup` for the
\* part before the first ":"; no file has the empty name.
ParseQuery(lookup) ==
    /\ UNCHANGED <<lspVars, cacheVars, ctxVars, refVars, editVars, srvVars>>
    /\ ~parsed.called
    /\ lookup # "none" =>
          /\ Positions(parsed.query, ":") # {}
          /\ parse_query(parsed.query).file_part # <<>>
    /\ LET r == parse_query_files(parsed.query, lookup)
       IN parsed' = [parsed EXCEPT !.called = TRUE, !.lookup = lookup,
                        !.file = r.file, !.symbol = r.symbol]

ParseNext ==
    \/ ParseNew
    \/ \E ch \in QueryChars : ParseChar(ch)
    \/ \E lookup \in Lookups : ParseQuery(lookup)

SpecParse == Init /\ [][ParseNext]_vars

Next ==
    LspNext \/ CacheNext \/ CtxNext \/ RefsNext \/ EditNext \/ SrvNext \/ ParseNext

Spec == Init /\ [][Next]_vars

\* =================================================================== claims

\* The request the thread is blocked in has ended: it returned or raised.
RequestEnds == Blocked /\ ~(Blocked' /\ cur'.sid = cur.sid /\ cur'.msg_id = cur.msg_id)

\* C1: a request() call ends only on a frame bearing the id the call
\* allocated, whatever frames arrive before it, and the value a query
\* returns is the result carried by that frame.
C1_ReplyCorrelation ==
    [][RequestEnds =>
         /\ HasFrame
         /\ NextFrame.id = cur.msg_id
         /\ (lastResult'.status = "ok" /\ lastResult'.op \in Queries)
               => lastResult'.value = QueryResult(cur.op, NextFrame.result)]_vars

\* C1 witness: a query returned the result of its own reply after a frame
\* bearing another id had arrived first and been read.
C1_Witness ==
    /\ lastResult.status = "ok"
    /\ lastResult.op \in Queries
    /\ lastResult.skipped
    /\ lastResult.value.tag = lastResult.msg_id

\* A request is waiting and the backend's reply to it is in the pipe.
ReplyQueued ==
    /\ Blocked
    /\ \E i \in 1..Len(procs[ReadPid].outbox) :
          procs[ReadPid].outbox[i].id = cur.msg_id

\* The read loop has taken a frame off the pipe and reads on.
Discards ==
    /\ HasFrame
    /\ ~RequestEnds
    /\ procs'[ReadPid].outbox = Tail(procs[ReadPid].outbox)

LiveBackends(lang) ==
    {p \in 1..Len(procs) :
        /\ Running(p)
        /\ sessions[procs[p].owner].language = lang
        /\ sessions[procs[p].owner].process = p}

\* C3: in every reachable state the registry has started at most one
\* not-yet-stopped backend process per language.
C3_OneBackendPerLanguage ==
    \A lang \in LANGUAGE_SERVERS : Cardinality(LiveBackends(lang)) <= 1

\* C4: once stop() has run on a session, no request is performed on it
\* again: a terminated session never allocates another request id.
C4_NoRequestOnTerminated ==
    [][\A s \in 1..Len(sessions) :
         Terminated(s) => sessions'[s].request_id = sessions[s].request_id]_vars

\* C5: when a stop() call on a started session has completed, the backend
\* process of that session is no longer running.
C5_StoppedMeansDead ==
    \A s \in 1..Len(sessions) :
        Terminated(s) => \A p \in 1..Len(procs) : procs[p].owner = s => ~Running(p)

\* stop() is called on a session whose process is None.
StopOnTerminated ==
    /\ pc = "shutdown_loop"
    /\ cur.idx <= Len(servers)
    /\ sessions[servers[cur.idx].sid].process = 0

\* C6: stop() on a session that is already terminated sends nothing, does
\* not wait or kill, raises nothing and leaves the session unchanged; the
\* caller just goes on to the next server.
C6_StopIdempotent ==
    [][(StopOnTerminated /\ <<pc, cur>>' # <<pc, cur>>) =>
         /\ sessions' = sessions
         /\ procs' = procs
         /\ servers' = servers
         /\ lastResult' = lastResult
         /\ pc' = "shutdown_loop"
         /\ cur' = [cur EXCEPT !.idx = @ + 1]]_vars

\* C6 witness: shutdown() has just called stop() on its first server, which
\* an earlier stop() had terminated, and nothing was sent, awaited or killed
\* (a full stop() ends only once the process is not running).
C6_Witness ==
    /\ pc = "shutdown_loop"
    /\ cur.idx = 2
    /\ Terminated(servers[1].sid)
    /\ \E p \in 1..Len(procs) : procs[p].owner = servers[1].sid /\ Running(p)

\* C7: start() does not wait for the reply to initialize beyond the start
\* timeout.
C7_StartTimesOut == pc = "init_wait" => waited <= LSP_TIMEOUT

\* Suffixes of Exts that the language map does not list.
UnmappedExts == {".txt", ""}

\* C8: definition, references and symbols on a file whose extension is not
\* in the language map start no session, raise nothing, return the empty
\* result and leave the session map unchanged.
C8_UnknownLanguageEmpty ==
    [][\A op \in Queries, ext \in UnmappedExts :
         Query(op, ext) =>
           /\ servers' = servers
           /\ sessions' = sessions
           /\ procs' = procs
           /\ pc' = "idle"
           /\ lastResult'.status = "ok"
           /\ lastResult'.value = EmptyResult(op)]_vars

\* C8 witness: with a session registered, a query on a file of unknown
\* language has returned its empty result without a request being sent.
C8_Witness ==
    /\ servers # <<>>
    /\ lastResult.op \in Queries
    /\ lastResult.status = "ok"
    /\ lastResult.msg_id = 0
    /\ lastResult.value = EmptyResult(lastResult.op)

\* A value that json.dumps and json.loads give back unchanged.
Lossless(v) == Serializable(v) /\ json_loads(json_dumps(v)) = v

\* get(key) is called right after set(key, v): it is the next cache call
\* and the clock has not moved.
GetRightAfterSet ==
    /\ cres.op = "set"
    /\ cres'.op = "get"
    /\ cres'.key = cres.key
    /\ cres'.time = cres.time

\* C9 as claimed: for any key and any payload that serializes without
\* loss, set(k, v) immediately followed by get(k) returns a value equal to v.
C9_RoundTripAnyPayload ==
    [][(GetRightAfterSet /\ Lossless(cres.arg)) =>
         (cres'.ok /\ cres'.val = cres.arg)]_vars

\* C9 as amended: for any key and any payload that serializes without loss
\* and whose serialized size does not exceed the capacity, set(k, v)
\* succeeds and the get(k) right after it returns a value equal to v.
C9_RoundTripFitting ==
    [][(GetRightAfterSet /\ Lossless(cres.arg)
          /\ get_size(json_dumps(cres.arg)) <= cache_size_bytes) =>
         (cres.ok /\ cres'.ok /\ cres'.val = cres.arg)]_vars

\* C9 witness: a non-empty lossless payload was set while the cache held
\* another entry, and the get right after returned it.
C9_Witness ==
    /\ cres.op = "get"
    /\ cres.ok
    /\ cres.val.n > 0
    /\ setAt[cres.key] = cres.time
    /\ Len(cache) = 2

\* C10: get never returns an entry later than TTL after the set that
\* stored it.
C10_NoHitAfterTtl ==
    (cres.op = "get" /\ cres.ok) =>
        /\ setAt[cres.key] >= 0
        /\ cres.time <= setAt[cres.key] + ttl_seconds

\* C10 witness: a get made later than TTL after the set found the entry
\* still stored and returned nothing.
C10_Witness ==
    /\ cres.op = "get"
    /\ ~cres.ok
    /\ Has(cache, cres.key)
    /\ setAt[cres.key] >= 0
    /\ cres.time > setAt[cres.key] + ttl_seconds

\* C11: the serialized sizes of the entries held by the cache never add up
\* to more than the configured capacity.
C11_SizeWithinCapacity == currsize(cache) <= cache_size_bytes

\* C11 witness: two entries fill the cache to its capacity.
C11_Witness == Len(cache) = 2 /\ currsize(cache) = cache_size_bytes

\* set(key, v) with a payload that json.dumps accepts and whose text is
\* larger than the capacity.
OversizedSet(key, v) ==
    /\ cres'.op = "set"
    /\ cres'.key = key
    /\ cres'.arg = v
    /\ Serializable(v)
    /\ get_size(json_dumps(v)) > cache_size_bytes
    /\ CacheSet(key, v)

\* The entries a get can see are the same before and after the step.
LiveEntriesKept ==
    \A k \in Keys :
        /\ contains(cache', k, now) = contains(cache, k, now)
        /\ contains(cache, k, now) => Entry(cache', k) = Entry(cache, k)

\* C12 as claimed: set of a payload larger than the capacity succeeds.
C12_OversizedPermitted ==
    [][\A key \in Keys, v \in Values : OversizedSet(key, v) => cres'.ok]_vars

\* C12 as amended: set of a payload larger than the capacity does not
\* raise; it reports failure, stores nothing, and every unexpired entry,
\* one held under the same key included, stays as it was.
C12_OversizedRejected ==
    [][\A key \in Keys, v \in Values :
         OversizedSet(key, v) =>
            /\ ~cres'.ok
            /\ ~cres'.raised
            /\ LiveEntriesKept]_vars

\* C12 witness: an oversized set was refused while the key held an entry,
\* and the entry is still there.
C12_Witness ==
    /\ cres.op = "set"
    /\ ~cres.ok
    /\ Serializable(cres.arg)
    /\ get_size(json_dumps(cres.arg)) > cache_size_bytes
    /\ contains(cache, cres.key, now)

\* get(key) finds an unexpired text that json.loads rejects.
GetOfBadText(key) ==
    /\ cres'.op = "get"
    /\ cres'.key = key
    /\ contains(cache, key, now)
    /\ ~Deserializable(Entry(cache, key).value)
    /\ CacheGet(key)

\* C13: get never raises; on a stored text that cannot be deserialized it
\* returns nothing and the cache keeps all its entries.
C13_GetNeverRaises ==
    [][\A key \in Keys :
         /\ (cres'.op = "get" /\ cres'.key = key /\ CacheGet(key)) => ~cres'.raised
         /\ GetOfBadText(key) => (~cres'.ok /\ LiveEntriesKept)]_vars

\* C13 witness: a get returned nothing for a key whose unexpired text is
\* not JSON, next to a second entry.
C13_Witness ==
    /\ cres.op = "get"
    /\ ~cres.ok
    /\ ~cres.raised
    /\ contains(cache, cres.key, cres.time)
    /\ ~Deserializable(Entry(cache, cres.key).value)
    /\ Len(cache) = 2

\* get_context(query, scope) finds an unexpired entry under its key.
CachedCall(query, scope) ==
    /\ CtxBegin(query, scope)
    /\ contains(ctxCache, generate_cache_key(query, scope, MAX_TOKENS), now)

\* The payload held under `key`.
Cached(c, key) == json_loads(Entry(c, key).value)

\* C14: a get_context call whose arguments have an unexpired entry, which
\* only an earlier call with the same arguments can have stored, returns at
\* once the payload that call returned: no file is resolved and no registry
\* request is made.  (The entry holds the payload of the call that stored
\* it, and keeps it for as long as it is held.)
C14_CachedCallReturnsAtOnce ==
    /\ [][\A query \in CtxQueries, scope \in Scopes :
            CachedCall(query, scope) =>
               /\ ctxRes'.status = "hit"
               /\ ctxRes'.value =
                     Cached(ctxCache, generate_cache_key(query, scope, MAX_TOKENS))
               /\ ctxRes'.requests = 0
               /\ ~ctxRes'.resolved
               /\ ctx'.pc = "idle"]_vars
    /\ [][(ctx.pc = "tokens" /\ ctx'.pc = "idle" /\ Has(ctxCache', ctx.key)) =>
             Cached(ctxCache', ctx.key) = ctxRes'.value]_vars
    /\ [][\A i \in 1..Len(ctxCache) :
             (Has(ctxCache', ctxCache[i].key)
                /\ ~(ctx.pc = "tokens" /\ ctx.key = ctxCache[i].key)) =>
                Entry(ctxCache', ctxCache[i].key).value = ctxCache[i].value]_vars

\* C14 witness: a call returned a cached payload that lists symbols, some
\* time after it was stored.
C14_Witness ==
    /\ ctxRes.status = "hit"
    /\ ctxRes.value.n > 2
    /\ Has(ctxCache, ctxRes.key)
    /\ now + 1 = Entry(ctxCache, ctxRes.key).expires

\* C16: tokens_saved of every payload get_context returns is a natural
\* number, and on a miss it is max(0, raw - optimized).
C16_TokensSavedNonNegative ==
    /\ [](ctxRes.status \in {"hit", "computed", "notfound"} =>
             saved_of(ctxRes.value) \in Nat)
    /\ [][\A filecase \in ReadOutcomes, file_tokens \in FileTokens,
            optimized_tokens \in OptimizedTokens :
            CtxFinish(filecase, file_tokens, optimized_tokens) =>
               LET raw == estimate_raw_tokens(filecase, ctx.scope, file_tokens)
               IN saved_of(ctxRes'.value) =
                     IF raw > optimized_tokens THEN raw - optimized_tokens ELSE 0]_vars

\* C16 witness: a computed payload whose optimized count exceeded the raw
\* estimate (the two are never equal here), so that the floor applied.
C16_Witness ==
    /\ ctxRes.status = "computed"
    /\ saved_of(ctxRes.value) = 0
    /\ ctxRes.value.n > 2

\* C20: a failure of the dependency scan of one file, or of the reference
\* query of one symbol, never makes get_context fail.
C20_ExtractionFailuresSwallowed ==
    ctxRes.status = "raised" => ctxRes.stage \notin {"dependencies", "references"}

\* C15: for a symbol with more than 5 raw references exactly 5 are
\* returned, for any symbol at most 5, and none of the returned references
\* is in the symbol's own file.
C15_ReferenceCap ==
    refCall.called =>
        /\ Len(refCall.kept) <= RefLimit
        /\ Len(refCall.raw) > RefLimit => Len(refCall.kept) = RefLimit
        /\ \A i \in 1..Len(refCall.kept) :
              ~SameFile(refCall.kept[i].file, refCall.file_path)

Reversed(q) == [i \in 1..Len(q) |-> q[Len(q) + 1 - i]]

Range(q) == {q[i] : i \in 1..Len(q)}

\* What an edit that is in range of the file before the call must have
\* done to the line that carried its number: a replaced or deleted line is
\* gone (the lines of a file differ from each other and from every new
\* text), an inserted text is there.
TookEffect(edit, before, after) ==
    IF edit.type = "insert"
    THEN edit.text \in Range(after)
    ELSE before[edit.line + 1] \notin Range(after)

\* C17: for any batch, each edit in range takes effect on the line that
\* carried its number before the call, and the result does not depend on
\* the order in which the edits are listed.
C17_BatchOrderIndependent ==
    (editRes.called /\ editRes.success) =>
        /\ editRes.after.lines =
              apply_sorted(read_lines(editRes.before),
                           sorted_edits(Reversed(editRes.edits)), 0).lines
        /\ \A i \in 1..Len(editRes.edits) :
              Applies(editRes.edits[i], editRes.before.lines) =>
                 TookEffect(editRes.edits[i], editRes.before.lines,
                            editRes.after.lines)

\* C18: apply_edit on an existing file does not fail; it counts at most
\* the edits requested; with edits_applied = 0 the file is as it was; a
\* single out-of-range edit gives edits_applied = 0, and a single in-range
\* replace gives edits_applied = 1 and changes that line and nothing else.
C18_SkippedEditsLeaveFile ==
    (editRes.called /\ editRes.exists) =>
        /\ editRes.success
        /\ editRes.edits_applied <= Len(editRes.edits)
        /\ editRes.edits_applied = 0 => editRes.after = editRes.before
        /\ Len(editRes.edits) = 1 =>
              LET edit == editRes.edits[1]
              IN /\ ~Applies(edit, editRes.before.lines) =>
                       editRes.edits_applied = 0
                 /\ (Applies(edit, editRes.before.lines) /\ edit.type = "replace") =>
                       /\ editRes.edits_applied = 1
                       /\ editRes.after =
                             [editRes.before EXCEPT !.lines[edit.line + 1] = edit.text]

\* C19: the responses written carry the id of the request they answer, at
\* most one per request, none for a request without id; and every request
\* with an id that reaches handle_request is answered.
C19_EveryRequestAnswered ==
    /\ [](\A i, j \in 1..Len(out) :
             /\ out[i].seq = out[j].seq => i = j
             /\ HasId(out[i].id)
             /\ out[i].seq = srv.seq => out[i].id = srv.id)
    /\ \A n \in 1..MaxRequests :
          (srv.seq = n /\ HasId(srv.id))
             ~> (\E i \in 1..Len(out) : out[i].seq = n)

\* The text before the i-th character of q, and the text after it.
Before(q, i) == SubSeq(q, 1, i - 1)

After(q, i) == SubSeq(q, i + 1, Len(q))

\* C21: a query with a ":" is split at its first ":" into file and symbol:
\* the file is the text before it if that exists, else the workspace file of
\* that name, else unresolved, and the symbol is the text after it; else a
\* query with exactly one "." gives the text after the dot and no file; any
\* other query is the symbol itself, with no file.
C21_ParseForms ==
    parsed.called =>
        LET q      == parsed.query
            colons == {i \in 1..Len(q) : q[i] = ":"}
            dots   == {i \in 1..Len(q) : q[i] = "."}
        IN IF colons # {}
           THEN \E i \in colons :
                   /\ \A j \in colons : i <= j
                   /\ parsed.symbol = After(q, i)
                   /\ parsed.lookup = "exists" =>
                         parsed.file = [resolved |-> TRUE, path |-> Before(q, i)]
                   /\ parsed.lookup = "found" =>
                         /\ parsed.file.resolved
                         /\ parsed.file.path # Before(q, i)
                         /\ After(parsed.file.path, 1) = Before(q, i)
                   /\ parsed.lookup = "none" => ~parsed.file.resolved
           ELSE /\ ~parsed.file.resolved
                /\ IF Cardinality(dots) = 1
                   THEN \E i \in dots : parsed.symbol = After(q, i)
                   ELSE parsed.symbol = q

\* C21 witness: all three forms have been parsed in their order of
\* precedence: here a query with two ":" and a ".", split at the first ":"
\* with the file replaced by the one found in the workspace.
C21_Witness ==
    /\ parsed.called
    /\ parsed.query = <<"u", ":", ".", ":">>
    /\ parsed.lookup = "found"
    /\ parsed.symbol = <<".", ":">>

\* C22: stats() reports the entry count, the capacity and the TTL, and its
\* counters count the get calls: right after a get that returned a payload
\* hits is at least one, and right after a get that returned nothing
\* misses is at least one.
C22_StatsCountGets ==
    LET st == stats(cache, now)
    IN /\ st.size = Cardinality({i \in 1..Len(cache) : now < cache[i].expires})
       /\ st.max_size = cache_size_bytes
       /\ st.ttl = ttl_seconds
       /\ cres.op = "get" => IF cres.ok THEN st.hits >= 1 ELSE st.misses >= 1

\* The entries of the cache that have not expired and belong to another
\* key than `key`, as positions: a lower position is less recently used.
Others(key) == {i \in 1..Len(cache) : ~Expired(cache[i], now) /\ cache[i].key # key}

\* A step of set() that stored its entry.
StoringSet ==
    /\ cres'.op = "set"
    /\ cres'.ok
    /\ now' = now
    /\ <<cache, cres>>' # <<cache, cres>>

\* C23: a set that stores its entry drops the expired entries, then evicts
\* entries in least-recently-used order until the new entry fits: no
\* expired entry is left, the capacity holds with the new entry at the
\* most recently used end, and an entry is evicted only when every less
\* recently used unexpired entry is evicted too.
C23_ExpiredThenLru ==
    [][StoringSet =>
          /\ \A i \in 1..Len(cache') : now < cache'[i].expires
          /\ currsize(cache') <= cache_size_bytes
          /\ cache'[Len(cache')].key = cres'.key
          /\ cache'[Len(cache')].value = json_dumps(cres'.arg)
          /\ \A i, j \in Others(cres'.key) :
                (i < j /\ ~Has(cache', cache[j].key)) => ~Has(cache', cache[i].key)
          /\ \A i \in Others(cres'.key) :
                Has(cache', cache[i].key) =>
                   Entry(cache', cache[i].key) = cache[i]]_vars

\* C23 witness: a set has just evicted the least recently used entry to
\* make room, and a more recently used entry of another key is still held.
C23_Witness ==
    /\ cres.op = "set"
    /\ cres.ok
    /\ cres.evicted # {}
    /\ Len(cache) >= 2
    /\ cache[Len(cache)].key = cres.key

\* The requests in the inbox of process p after the step that were not
\* there before it: the requests the step wrote.
NewRequests(p) ==
    {procs'[p].inbox[i] : i \in 1..Len(procs'[p].inbox)}
       \ (IF p <= Len(procs)
          THEN {procs[p].inbox[i] : i \in 1..Len(procs[p].inbox)} ELSE {})

\* The notification the step wrote to process p, "" for none.
NewNotification(p) ==
    IF p <= Len(procs) /\ procs'[p].notified = procs[p].notified THEN ""
    ELSE procs'[p].notified

\* The read loop takes the result reply to the request it waits for.
TakesResult ==
    /\ HasFrame
    /\ NextFrame.id = cur.msg_id
    /\ NextFrame.kind = "result"
    /\ procs'[ReadPid].outbox = Tail(procs[ReadPid].outbox)

\* C24: the first message a started backend is written is the initialize
\* request; the initialized notification is written only in the step that
\* takes the result reply to initialize; and a request other than
\* initialize is written only to a backend that has been notified.
C24_HandshakeOrder ==
    [][\A p \in 1..Len(procs') :
          /\ p > Len(procs) =>
                /\ procs'[p].inbox = <<[id |-> 1, method |-> "initialize"]>>
                /\ procs'[p].notified = ""
          /\ NewNotification(p) = "initialized" =>
                /\ p <= Len(procs)
                /\ procs[p].notified = ""
                /\ pc = "init_wait"
                /\ ReadPid = p
                /\ TakesResult
          /\ \A m \in NewRequests(p) :
                m.method # "initialize" => procs'[p].notified # ""]_vars

\* C24 witness: the handshake is over and the first query, bearing the
\* second id, has been written to a backend that holds the notification.
C24_Witness ==
    /\ pc = "op_wait"
    /\ cur.msg_id = 2
    /\ procs[ReadPid].notified = "initialized"
    /\ procs[ReadPid].inbox = <<[id |-> 2, method |-> QueryMethod(cur.op)]>>

\* C25: stop() writes the exit notification only in the step that takes
\* the result reply to its shutdown request, and then waits for the
\* process; the wait lasts at most the grace period; the process is
\* killed only when it is still running at the end of that period.
C25_StopOrder ==
    /\ [](pc = "exit_wait" =>
             /\ waited <= GraceTimeout
             /\ procs[sessions[cur.sid].process].notified = "exit"
                   \/ ~Running(sessions[cur.sid].process))
    /\ [][\A p \in 1..Len(procs) :
            /\ NewNotification(p) = "exit" =>
                  /\ pc = "shutdown_wait"
                  /\ ReadPid = p
                  /\ TakesResult
                  /\ sessions[cur.sid].request_id = cur.msg_id
                  /\ cur.msg_id >= 2
                  /\ pc' = "exit_wait"
            /\ (pc = "shutdown_wait" /\ ReadPid = p /\ TakesResult) =>
                  /\ pc' = "exit_wait"
                  /\ Running(p) => NewNotification(p) = "exit"
            /\ (procs'[p].state = "killed" /\ procs[p].state # "killed") =>
                  /\ pc = "exit_wait"
                  /\ sessions[cur.sid].process = p
                  /\ Running(p)
                  /\ waited = GraceTimeout]_vars

\* C25 witness: stop() has killed a backend that was sent shutdown and
\* exit and was still running when the grace period was over.
C25_Witness ==
    \E p \in 1..Len(procs) :
        /\ procs[p].state = "killed"
        /\ procs[p].notified = "exit"
        /\ sessions[procs[p].owner].process = 0

\* The read loop takes a frame whose id is not the id it waits for.
TakesOther ==
    /\ HasFrame
    /\ NextFrame.id # cur.msg_id
    /\ procs'[ReadPid].outbox = Tail(procs[ReadPid].outbox)

\* C26: a frame whose id is not that of the request in flight, or that
\* carries no id, is dropped: the request stays as it is, nothing is
\* returned or raised, and the session and the registry are untouched.
C26_UnmatchedFrameDropped ==
    [][TakesOther =>
          /\ pc' = pc
          /\ cur'.msg_id = cur.msg_id
          /\ cur'.sid = cur.sid
          /\ lastResult' = lastResult
          /\ sessions' = sessions
          /\ servers' = servers
          /\ procs' = [procs EXCEPT ![ReadPid].outbox = Tail(@)]]_vars

\* C26 witness: the read loop has dropped a frame, the request is still
\* waiting, and the reply to it is in the pipe.
C26_Witness ==
    /\ pc = "op_wait"
    /\ cur.skipped
    /\ HasFrame
    /\ NextFrame = [id |-> cur.msg_id, kind |-> "result", result |-> cur.msg_id]

\* C27: when the reply to a query on a registered session carries an error
\* object, the query raises with that error object in the exception, only
\* that frame is read, and the session, its id counter and its place in
\* the registry are as before.
C27_ErrorReplyRaises ==
    [][(pc = "op_wait" /\ HasFrame /\ NextFrame.id = cur.msg_id
          /\ NextFrame.kind = "error"
          /\ procs'[ReadPid].outbox = Tail(procs[ReadPid].outbox)) =>
          /\ lastResult'.status = "raised"
          /\ lastResult'.err = "lsp_error"
          /\ lastResult'.value = [kind |-> "error", tag |-> NextFrame.result]
          /\ lastResult'.msg_id = cur.msg_id
          /\ pc' = "idle"
          /\ sessions' = sessions
          /\ servers' = servers
          /\ procs' = [procs EXCEPT ![ReadPid].outbox = Tail(@)]]_vars

\* C27 witness: a query has just raised on an error reply; the session is
\* still registered, with its pipes and a running backend, and its
\* counter stands at the id of the failed request.
C27_Witness ==
    /\ pc = "idle"
    /\ lastResult.status = "raised"
    /\ lastResult.err = "lsp_error"
    /\ lastResult.op \in Queries
    /\ lastResult.msg_id >= 2
    /\ \E i \in 1..Len(servers) :
          /\ sessions[servers[i].sid].request_id = lastResult.msg_id
          /\ sessions[servers[i].sid].writer # 0
          /\ Running(sessions[servers[i].sid].process)

\* C28: every request written on a session carries the counter's new
\* value, one more than the value before, so ids never repeat on a
\* session; the counter never goes back; and a step that writes only a
\* notification leaves the counter as it is.
C28_FreshIds ==
    [][\A s \in 1..Len(sessions') :
          LET old == IF s <= Len(sessions) THEN sessions[s].request_id ELSE 0
              new == sessions'[s].request_id
              p   == sessions'[s].writer
          IN /\ new \in {old, old + 1}
             /\ p # 0 =>
                   /\ \A m \in NewRequests(p) : m.id = new /\ new = old + 1
                   /\ Cardinality(NewRequests(p)) <= 1
                   /\ (NewNotification(p) # "" /\ NewRequests(p) = {}) => new = old]_vars

\* C28 witness: a session has used the ids 1, 2 and 3: its third request
\* has returned, and its counter stands at 3.
C28_Witness ==
    /\ lastResult.status = "ok"
    /\ lastResult.msg_id = 3
    /\ \E i \in 1..Len(servers) : sessions[servers[i].sid].request_id = 3

\* The symbols of the backend's answer that the scope keeps for target f:
\* function keeps the names holding the target, class the class-kind
\* symbols and the names holding the target, file all.
KeptByScope(file_symbols, scope) ==
    {i \in 1..Len(file_symbols) :
        \/ scope = "file"
        \/ scope = "function" /\ file_symbols[i].name = "f"
        \/ scope = "class" /\ (file_symbols[i].kind = 5 \/ file_symbols[i].name = "f")}

\* C29: when the resolved file exists, symbol extraction returns at least
\* one symbol for every scope; when the scope keeps none of the backend's
\* symbols, it returns exactly one stub of kind Unknown named after the
\* target, and else one symbol for each symbol kept.
C29_StubWhenFileExists ==
    [][\A file_symbols \in FileSymbolAnswers :
          CtxSymbols(file_symbols, TRUE) =>
             /\ Len(ctx'.symbols) >= 1
             /\ IF KeptByScope(file_symbols, ctx.scope) = {}
                THEN /\ Len(ctx'.symbols) = 1
                     /\ ctx'.symbols[1].kind = "Unknown"
                     /\ <<ctx'.symbols[1].name>> = parse_query(ctx.query).symbol
                ELSE /\ Len(ctx'.symbols) = Cardinality(KeptByScope(file_symbols, ctx.scope))
                     /\ \A i \in 1..Len(ctx'.symbols) : ctx'.symbols[i].kind # "Unknown"]_vars

\* C29 witness: extraction in class scope has returned the stub: the
\* backend listed no symbol for the existing file.
C29_Witness ==
    /\ ctx.pc = "deps"
    /\ ctx.scope = "class"
    /\ Len(ctx.symbols) = 1
    /\ ctx.symbols[1].kind = "Unknown"
    /\ ctx.symbols[1].name = "f"

\* C30: a get_context call that resolves no file returns the payload with
\* no symbols, dependencies or references and tokens_saved 0, as a result
\* and not as an exception, without having sent a request to the registry;
\* neither its lookup nor its return changes the cache, which does not
\* hold the call's key afterwards.
C30_NotFoundIsEmpty ==
    /\ [](ctxRes.status = "notfound" =>
             /\ ctxRes.value.body = <<<<>>, <<>>, <<>>, 0>>
             /\ ctxRes.requests = 0)
    /\ [][(ctx.pc = "idle" /\ ctx'.pc = "resolve") => ctxCache' = ctxCache]_vars
    /\ [][(ctx.pc = "resolve" /\ ctx'.pc = "idle") =>
             /\ ctxRes'.status = "notfound"
             /\ ctxRes'.key = ctx.key
             /\ ctxCache' = ctxCache
             /\ ~contains(ctxCache', ctx.key, now)]_vars

\* C30 witness: a call has returned the not-found payload while the cache
\* holds the payload of an earlier call.
C30_Witness ==
    /\ ctxRes.status = "notfound"
    /\ ctxRes.resolved
    /\ ctxCache # <<>>

\* The sessions a registry holds.
SidsOf(srvs) == {srvs[i].sid : i \in 1..Len(srvs)}

\* A session object whose start() raised: no operation is running on it,
\* the registry does not hold it and its stop() never ran.
FailedStart(ss, ps, srvs, c, s) ==
    /\ s \notin SidsOf(srvs)
    /\ s # c.sid
    /\ ~(ss[s].process = 0 /\ \E p \in 1..Len(ps) : ps[p].owner = s)

\* start() raises in subprocess.Popen.
SpawnRaises ==
    /\ Len(sessions') = Len(sessions) + 1
    /\ sessions'[Len(sessions')].process = 0

\* start() raises in _initialize: the reply to the initialize request
\* holds an error object, and the read loop takes it.
HandshakeRaises ==
    /\ pc = "init_wait"
    /\ HasFrame
    /\ Matches(NextFrame, cur.msg_id)
    /\ NextFrame.kind = "error"
    /\ pc' # pc

\* An operation starts a session.
StartsSession == pc \in {"boot", "idle"} /\ (pc' = "init_wait" \/ SpawnRaises)

\* C31: a start() that fails, in the spawn or in the handshake, ends the
\* operation that asked for it with the exception, and the registry holds
\* no session for that language afterwards; the session object of a failed
\* start is never registered and never used again, and an operation that
\* starts a session does so on a new session object.
C31_FailedStartPropagates ==
    [][/\ SpawnRaises =>
            /\ lastResult'.status = "raised"
            /\ lastResult'.err = "spawn"
            /\ cur' = NoCur
            /\ servers' = servers
            /\ \A i \in 1..Len(servers') :
                 servers'[i].lang # sessions'[Len(sessions')].language
       /\ HandshakeRaises =>
            /\ lastResult'.status = "raised"
            /\ lastResult'.op = cur.op
            /\ lastResult'.value = ErrorPayload(NextFrame)
            /\ cur' = NoCur
            /\ servers' = servers
            /\ \A i \in 1..Len(servers') : servers'[i].lang # cur.lang
            /\ FailedStart(sessions', procs', servers', cur', cur.sid)
       /\ \A s \in 1..Len(sessions) :
            FailedStart(sessions, procs, servers, cur, s) =>
                /\ sessions'[s] = sessions[s]
                /\ FailedStart(sessions', procs', servers', cur', s)
       /\ StartsSession =>
            /\ Len(sessions') = Len(sessions) + 1
            /\ SubSeq(sessions', 1, Len(sessions)) = sessions
            /\ sessions'[Len(sessions')].language \notin
                 {servers[i].lang : i \in 1..Len(servers)}
            /\ (pc' = "init_wait" => cur'.sid = Len(sessions'))]_vars

\* C31 witness: a query has returned from a session that was started and
\* registered after the handshake of an earlier session for the same
\* language had failed; the earlier session is not registered.
C31_Witness ==
    /\ lastResult.status = "ok"
    /\ lastResult.op \in Queries
    /\ \E s \in 1..Len(sessions), t \in SidsOf(servers) :
         /\ s < t
         /\ sessions[s].language = sessions[t].language
         /\ sessions[s].process # 0
         /\ FailedStart(sessions, procs, servers, cur, s)
         /\ sessions[t].request_id = lastResult.msg_id
         /\ lastResult.msg_id >= 2

\* shutdown() ends: it returns, or an exception leaves it.
ShutdownEnds == cur.op = "shutdown" /\ pc # "idle" /\ pc' = "idle"

\* C32: when shutdown() ends, by returning or by raising, every session
\* the registry held has been stopped, the session map is empty and
\* initialized is false.
C32_ShutdownLeavesNothing ==
    [][ShutdownEnds =>
          /\ \A s \in SidsOf(servers) :
               /\ sessions'[s].process = 0
               /\ \A p \in 1..Len(procs') : procs'[p].owner = s => procs'[p].state # "running"
          /\ servers' = <<>>
          /\ ~initialized']_vars

\* A running backend process is owned: a session the registry holds refers
\* to it.
Owned(p) ==
    /\ procs[p].owner \in SidsOf(servers)
    /\ sessions[procs[p].owner].process = p

\* C33: no orphan backend process: whenever no operation is in progress,
\* each backend process that is still running is owned by a session
\* present in the registry's session map.
C33_NoOrphanBackend ==
    pc = "idle" => \A p \in 1..Len(procs) : Running(p) => Owned(p)
====
